---- MODULE Spec2Model ----
(***************************************************************************)
(* Employee generator (src/main.js): main(dtoIn) and its field selectors   *)
(* getGender, getWorkload, getName, getSurname, the birthdate generator    *)
(* generateUniqueBirthdate and randomInt.                                  *)
(*                                                                         *)
(* Representation choices                                                  *)
(*  - A JavaScript value that may be of several types is a tagged record   *)
(*    [t |-> <typeof>, ...]; null and undefined are their own tags.        *)
(*  - A time value (Date.prototype.getTime) is the pair <<day, ms>> with   *)
(*    value day * MsPerDay + ms, day counted from 1970-01-01 and           *)
(*    0 <= ms < MsPerDay.  A difference of time values is such a pair too  *)
(*    (day may be negative).  The pairs keep every number inside TLC's     *)
(*    32-bit integers; the arithmetic is the exact millisecond arithmetic. *)
(*  - getFullYear/setFullYear are modelled for a host whose local time     *)
(*    zone is UTC, with the calendar of ECMA-262 (21.4.1).                  *)
(*  - Math.random() is a fraction k / RandomSteps, 0 <= k < RandomSteps.   *)
(*    For the birthdate draw the integers Math.floor(Math.random() * diff) *)
(*    can produce are enumerated directly (FloorOfRandomTimes); of the     *)
(*    ~3*10^10 integers of a window of a year or more the model draws the  *)
(*    ones nearest to both ends of the range.                              *)
(*  - The name tables are the source's strings; a letter outside ASCII is  *)
(*    written as its Unicode code point in angle brackets, <00E1> for      *)
(*    U+00E1, which keeps distinct strings distinct.                       *)
(***************************************************************************)
EXTENDS Integers, Sequences, FiniteSets, TLC

VARIABLES
    pc,              \* position of the caller/main: idle, loop, draw, done, threw
    dtoIn,           \* argument of the current call of main
    i,               \* loop counter of main (line 16)
    cur,             \* gender, workload, name, surname of the iteration (lines 17-20)
    dtoOut,          \* the array built by main, returned at line 32
    usedBirthdates,  \* the Set created at line 14
    clock,           \* the host's clock, what new Date() reads
    ticks,           \* how many milliseconds the clock has advanced
    now,             \* local of generateUniqueBirthdate (line 147)
    minTime,         \* local of generateUniqueBirthdate (line 154)
    diff,            \* local of generateUniqueBirthdate (line 156)
    ts,              \* local of generateUniqueBirthdate (line 158)
    reads,           \* history: clock instants read by the finished calls of this run
    earlier,         \* history: the timestamp the earlier run of main issued last
    sel              \* result of one application of the four selectors (SelSpec)

vars == <<pc, dtoIn, i, cur, dtoOut, usedBirthdates, clock, ticks, now, minTime,
          diff, ts, reads, earlier, sel>>

----------------------------------------------------------------------------
(* Bounds of the model *)

MaxCount == 2
MaxAge == 1
MaxTicks == 1
RandomSteps == 16
MaxIndex == 17

----------------------------------------------------------------------------
(* JavaScript values *)

Undefined == [t |-> "undefined"]
Null == [t |-> "null"]
Num(n) == [t |-> "number", v |-> n]
Str(s) == [t |-> "string", v |-> s]
AgeObj(mn, mx) == [t |-> "object", min |-> mn, max |-> mx]
Dto(c, a) == [t |-> "object", count |-> c, age |-> a]

\* ToBoolean of the values the model uses (objects are truthy)
Truthy(v) == v.t \notin {"undefined", "null"}

TypeOf(v) == v.t

----------------------------------------------------------------------------
(* Time values and the calendar *)

MsPerDay == 86400000

Zero == <<0, 0>>

\* a local that holds no time value (yet)
NoTime == <<>>

\* the pair <<d, m>> brought to 0 <= ms < MsPerDay
Norm(d, m) == <<d + (m \div MsPerDay), m % MsPerDay>>

TimeAdd(a, b) == Norm(a[1] + b[1], a[2] + b[2])

TimeSub(a, b) == Norm(a[1] - b[1], a[2] - b[2])

TimeLess(a, b) == a[1] < b[1] \/ (a[1] = b[1] /\ a[2] < b[2])

TimeLeq(a, b) == a = b \/ TimeLess(a, b)

Ms(k) == Norm(0, k)

InLeapYear(y) == (y % 4 = 0) /\ ((y % 100 # 0) \/ (y % 400 = 0))

DayFromYear(y) ==
    365 * (y - 1970) + ((y - 1969) \div 4) - ((y - 1901) \div 100)
        + ((y - 1601) \div 400)

YearFromDay(d) ==
    CHOOSE y \in (1970 + (d \div 366)) .. (1970 + (d \div 365)) :
        DayFromYear(y) <= d /\ d < DayFromYear(y + 1)

\* days of a common year before each month, January first
CumulativeDays == <<0, 31, 59, 90, 120, 151, 181, 212, 243, 273, 304, 334, 365>>

\* days of the year before month m (0 = January .. 12 = next January)
DaysBeforeMonth(m, leap) ==
    CumulativeDays[m + 1] + (IF leap /\ m >= 2 THEN 1 ELSE 0)

\* the month (0 = January) and the date (1 ..) of day d
MonthFromDay(d) ==
    LET y == YearFromDay(d)
        leap == InLeapYear(y)
        w == d - DayFromYear(y)
    IN  CHOOSE m \in 0 .. 11 :
            DaysBeforeMonth(m, leap) <= w /\ w < DaysBeforeMonth(m + 1, leap)

DateFromDay(d) ==
    LET y == YearFromDay(d)
    IN  d - DayFromYear(y) - DaysBeforeMonth(MonthFromDay(d), InLeapYear(y)) + 1

\* MakeDay for a month in 0..11; a date past the month's end runs on into
\* the next month (29 February of a common year is 1 March)
MakeDay(y, m, dt) == DayFromYear(y) + DaysBeforeMonth(m, InLeapYear(y)) + dt - 1

GetFullYear(t) == YearFromDay(t[1])

\* setFullYear(y): the year replaced, month, date and time of day kept
SetFullYear(t, y) ==
    LET m == MonthFromDay(t[1])
        w == t[1] - DayFromYear(YearFromDay(t[1]))
        dt == w - DaysBeforeMonth(m, InLeapYear(YearFromDay(t[1]))) + 1
    IN  <<MakeDay(y, m, dt), t[2]>>

Digit == <<"0", "1", "2", "3", "4", "5", "6", "7", "8", "9">>

TwoDigits == [n \in 0 .. 99 |-> Digit[(n \div 10) + 1] \o Digit[(n % 10) + 1]]

\* n in two decimal digits
Two(n) == TwoDigits[n]

\* Date.prototype.toISOString for the years 0000..9999:
\* YYYY-MM-DDTHH:mm:ss.sssZ
ToISOString(t) ==
    LET y == YearFromDay(t[1])
        m == MonthFromDay(t[1])
        dt == t[1] - DayFromYear(y) - DaysBeforeMonth(m, InLeapYear(y)) + 1
        s == t[2] \div 1000
    IN  Two(y \div 100) \o Two(y % 100) \o "-" \o Two(m + 1) \o "-" \o Two(dt)
            \o "T" \o Two(s \div 3600) \o ":" \o Two((s \div 60) % 60) \o ":"
            \o Two(s % 60) \o "." \o Digit[((t[2] \div 100) % 10) + 1]
            \o Two(t[2] % 100) \o "Z"

\* instants the clock may show when the program starts
ClockStarts ==
    { <<MakeDay(2024, 1, 29), MsPerDay - 1>>,     \* 2024-02-29T23:59:59.999Z
      <<MakeDay(2026, 10, 5), 540000>> }          \* 2026-11-05T00:09:00.000Z

----------------------------------------------------------------------------
(* randomInt and the four selectors *)

Random == 0 .. (RandomSteps - 1)

\* Math.floor(Math.random() * max), Math.random() = r / RandomSteps
randomInt(max, r) == (r * max) \div RandomSteps

\* the draws a selector over a list of length len makes at index: none
\* below len (a single dummy value), one otherwise
DrawsAt(index, len) == IF index < len THEN {0} ELSE Random

genders == <<"male", "female">>

workloads == <<10, 20, 30, 40>>

maleNames ==
    <<"Jan", "Petr", "Jakub", "Michal", "Ond<0159>ej",
      "David", "Tom<00E1><0161>", "Filip", "Martin", "Luk<00E1><0161>",
      "Marek", "Karel", "V<00E1>clav", "Roman", "Adam", "Mat<011B>j">>

femaleNames ==
    <<"Lucie", "Marie", "Anna", "Tereza", "Eva",
      "Kate<0159>ina", "Barbora", "Veronika", "Ad<00E9>la",
      "Krist<00FD>na", "Karol<00ED>na", "Marcela", "Hana",
      "Zuzana", "Jana", "Nikola">>

maleSurnames ==
    <<"Nov<00E1>k", "Svoboda", "Novotn<00FD>", "Dvo<0159><00E1>k", "<010C>ern<00FD>",
      "Proch<00E1>zka", "Ku<010D>era", "Vesel<00FD>", "Hor<00E1>k", "N<011B>mec",
      "Marek", "Pokorn<00FD>", "Pavl<00ED>k", "S<00FD>kora", "Kr<00E1>l", "R<016F><017E>i<010D>ka">>

femaleSurnames ==
    <<"Nov<00E1>kov<00E1>", "Svobodov<00E1>", "Novotn<00E1>", "Dvo<0159><00E1>kov<00E1>", "<010C>ern<00E1>",
      "Proch<00E1>zkov<00E1>", "Ku<010D>erov<00E1>", "Vesel<00E1>", "Hor<00E1>kov<00E1>", "N<011B>mcov<00E1>",
      "Markov<00E1>", "Pokorn<00E1>", "Pavl<00ED>kov<00E1>", "S<00FD>korov<00E1>", "Kr<00E1>lov<00E1>", "R<016F><017E>i<010D>kov<00E1>">>

\* a selector without the coverage-first branch
PickAtRandom(list, index, r) == list[randomInt(Len(list), r) + 1]

\* the shared shape of the selectors: list[index] below the list's length,
\* list[randomInt(list.length)] from there on (arrays are 0-based)
PickAt(list, index, r) ==
    IF index < Len(list) THEN list[index + 1]
    ELSE list[randomInt(Len(list), r) + 1]

getGender(index, r) == PickAt(genders, index, r)

getWorkload(index, r) == PickAt(workloads, index, r)

\* getName with the two lists exchanged
getNameSwapped(index, gender, r) ==
    PickAt(IF gender = "male" THEN femaleNames ELSE maleNames, index, r)

getName(index, gender, r) ==
    PickAt(IF gender = "male" THEN maleNames ELSE femaleNames, index, r)

getSurname(index, gender, r) ==
    PickAt(IF gender = "male" THEN maleSurnames ELSE femaleSurnames, index, r)

\* lines 17-20 of main: the four selectors at one index, with their draws
Selected(index, rg, rw, rn, rs) ==
    LET gender == getGender(index, rg)
    IN  [gender |-> gender,
         workload |-> getWorkload(index, rw),
         name |-> getName(index, gender, rn),
         surname |-> getSurname(index, gender, rs)]

NoRecord == [gender |-> "", workload |-> 0, name |-> "", surname |-> ""]

----------------------------------------------------------------------------
(* generateUniqueBirthdate *)

\* lines 148, 151, 154: the instant n with age.max years subtracted
MinTimeOf(age, n) == SetFullYear(n, GetFullYear(n) - age.max)

\* lines 149, 152, 155: the instant n with age.min years subtracted
MaxTimeOf(age, n) == SetFullYear(n, GetFullYear(n) - age.min)

\* line 156
DiffOf(age, n) == TimeSub(MaxTimeOf(age, n), MinTimeOf(age, n))

\* the values the model draws of a range that ends at d: zero and the
\* MaxCount - 2 values on either side of it, d, and the value before d
Sampled(d) ==
    {Ms(k) : k \in (2 - MaxCount) .. (MaxCount - 2)}
        \cup {TimeAdd(d, Ms(k)) : k \in -1 .. 0}

\* the same with Math.ceil in the place of Math.floor
CeilOfRandomTimes(d) ==
    IF d = Zero THEN {Zero}
    ELSE IF TimeLess(Zero, d)
         THEN {o \in Sampled(d) : TimeLeq(Zero, o) /\ TimeLeq(o, d)}
         ELSE {o \in Sampled(d) : TimeLess(d, o) /\ TimeLeq(o, Zero)}

\* the integers Math.floor(Math.random() * d) takes for Math.random() in
\* [0, 1): 0 .. d-1 for d > 0, only 0 for d = 0, d .. 0 for d < 0
FloorOfRandomTimes(d) ==
    IF d = Zero THEN {Zero}
    ELSE IF TimeLess(Zero, d)
         THEN {o \in Sampled(d) : TimeLeq(Zero, o) /\ TimeLess(o, d)}
         ELSE {o \in Sampled(d) : TimeLeq(d, o) /\ TimeLeq(o, Zero)}

\* line 160: the values one pass of the do-while can assign to ts
Drawable(mn, d) == {TimeAdd(mn, o) : o \in FloorOfRandomTimes(d)}

\* a loop condition that never finds the timestamp
HasNever(used, t) == FALSE

\* line 161: usedBirthdates.has(ts)
Has(used, t) == t \in used

\* a generator that forgets to record the timestamp
AddNothing(used, t) == used

\* line 163: usedBirthdates.add(ts)
Add(used, t) == used \cup {t}

\* line 164 and lines 23-29: the record pushed for the iteration
Employee(c, t) ==
    [gender |-> c.gender, birthdate |-> ToISOString(t), name |-> c.name,
     surname |-> c.surname, workload |-> c.workload]

----------------------------------------------------------------------------
(* main *)

Ages == 0 .. MaxAge

AgeValues == {Undefined, Null} \cup {AgeObj(mn, mx) : mn, mx \in Ages}

CountValues == {Num(c) : c \in -1 .. MaxCount} \cup {Str("2"), Undefined}

Requests == {Undefined, Null} \cup {Dto(c, a) : c \in CountValues, a \in AgeValues}

\* a Set kept across the calls of main
KeptSet(prev) == prev

\* line 14: new Set(), whatever Set (prev) an earlier call created
NewSet(prev) == {}

\* a loop that runs once more
LoopTestInclusive(index, count) == index <= count

\* line 16: i < count
LoopTest(index, count) == index < count

\* line 10: destructuring null or undefined throws a TypeError
DestructureThrows(req) == TypeOf(req) \in {"undefined", "null"}

\* a guard that also rejects an inverted age range
RejectedInverted(req) ==
    \/ ~Truthy(req)
    \/ TypeOf(req.count) # "number"
    \/ ~Truthy(req.age)
    \/ req.age.min > req.age.max

\* line 11: !dtoIn || typeof count !== "number" || !age
Rejected(req) ==
    \/ ~Truthy(req)
    \/ TypeOf(req.count) # "number"
    \/ ~Truthy(req.age)

Init ==
    /\ pc = "idle"
    /\ dtoIn = Undefined
    /\ i = 0
    /\ cur = NoRecord
    /\ dtoOut = <<>>
    /\ usedBirthdates = {}
    /\ clock \in ClockStarts
    /\ ticks = 0
    /\ now = NoTime
    /\ minTime = NoTime
    /\ diff = NoTime
    /\ ts = NoTime
    /\ reads = {}
    /\ earlier = {}
    /\ sel = NoRecord

\* lines 9-14 of a call main(req); the timestamp the run before it issued
\* last is remembered in the history variable earlier
Call(req) ==
    /\ dtoIn' = req
    /\ earlier' = (IF usedBirthdates = {} THEN {} ELSE {ts})
    /\ dtoOut' = <<>>
    /\ usedBirthdates' = NewSet(usedBirthdates)
    /\ i' = 0
    /\ reads' = {}
    /\ pc' = IF DestructureThrows(req) THEN "threw"
             ELSE IF Rejected(req) THEN "done"
             ELSE "loop"
    /\ UNCHANGED <<cur, clock, ticks, now, minTime, diff, ts, sel>>

\* the first call of main
Main(req) ==
    /\ pc = "idle"
    /\ Call(req)

\* main is called once more with the same argument after a run that issued
\* birthdates has returned
MainAgain ==
    /\ pc = "done"
    /\ earlier = {}
    /\ usedBirthdates # {}
    /\ Call(dtoIn)

\* lines 16-21 up to the first pass of the do-while: the loop test, the four
\* selectors and the head of generateUniqueBirthdate (lines 147-158)
Iterate ==
    /\ pc = "loop"
    /\ LoopTest(i, dtoIn.count.v)
    /\ now' = clock
    /\ LET mn == MinTimeOf(dtoIn.age, clock)
           mx == MaxTimeOf(dtoIn.age, clock)
       IN  minTime' = mn /\ diff' = TimeSub(mx, mn)
    /\ ts' = NoTime
    /\ pc' = "draw"
    /\ UNCHANGED <<dtoIn, i, dtoOut, usedBirthdates, clock, ticks, reads,
                   earlier, sel>>
    /\ \E rg \in DrawsAt(i, Len(genders)), rw \in DrawsAt(i, Len(workloads)),
          rn \in DrawsAt(i, Len(maleNames)), rs \in DrawsAt(i, Len(maleSurnames)) :
            cur' = Selected(i, rg, rw, rn, rs)

\* lines 159-161: a pass of the do-while that draws a used timestamp
DrawUsed ==
    /\ pc = "draw"
    /\ \E t \in Drawable(minTime, diff) :
        /\ Has(usedBirthdates, t)
        /\ ts' = t
    /\ UNCHANGED <<pc, dtoIn, i, cur, dtoOut, usedBirthdates, clock, ticks, now,
                   minTime, diff, reads, earlier, sel>>

\* lines 159-164 and 23-29, 16: the pass that draws an unused timestamp, the
\* return of generateUniqueBirthdate, the push and i++
DrawFresh ==
    /\ pc = "draw"
    /\ \E t \in Drawable(minTime, diff) :
        /\ ~Has(usedBirthdates, t)
        /\ ts' = t
        /\ usedBirthdates' = Add(usedBirthdates, t)
        /\ dtoOut' = Append(dtoOut, Employee(cur, t))
    /\ i' = i + 1
    /\ reads' = reads \cup {now}
    /\ pc' = "loop"
    /\ UNCHANGED <<dtoIn, cur, clock, ticks, now, minTime, diff, earlier, sel>>

\* lines 16 and 32: the loop test fails and main returns dtoOut
Return ==
    /\ pc = "loop"
    /\ ~LoopTest(i, dtoIn.count.v)
    /\ pc' = "done"
    /\ UNCHANGED <<dtoIn, i, cur, dtoOut, usedBirthdates, clock, ticks, now, minTime, diff, ts,
                   reads, earlier, sel>>

\* the host's clock advances by a millisecond.  Only line 147 observes the
\* clock, so the model lets it advance where the next thing main does is to
\* read it.
Tick ==
    /\ pc = "loop"
    /\ LoopTest(i, dtoIn.count.v)
    /\ ticks < MaxTicks
    /\ clock' = TimeAdd(clock, Ms(1))
    /\ ticks' = ticks + 1
    /\ UNCHANGED <<pc, dtoIn, i, cur, dtoOut, usedBirthdates, now, minTime, diff, ts, reads,
                   earlier, sel>>

Next ==
    \/ \E req \in Requests : Main(req)
    \/ Iterate
    \/ DrawUsed
    \/ DrawFresh
    \/ Return
    \/ Tick

Spec == Init /\ [][Next]_vars

\* the draws are fair: a pass that can draw an unused timestamp eventually
\* does; the loop of main and its return are not held up
FairSpec ==
    Spec /\ WF_vars(Iterate) /\ WF_vars(DrawFresh) /\ WF_vars(Return)

\* two consecutive runs of main
RunsNext == Next \/ MainAgain

RunsSpec == Init /\ [][RunsNext]_vars

----------------------------------------------------------------------------
(* The selectors alone: one application at an index 0 .. MaxIndex, for    *)
(* every value Math.random() would return to each of them                  *)

SelInit ==
    /\ pc = "select"
    /\ dtoIn = Undefined
    /\ i \in 0 .. MaxIndex
    /\ cur = NoRecord
    /\ dtoOut = <<>>
    /\ usedBirthdates = {}
    /\ clock = Zero
    /\ ticks = 0
    /\ now = NoTime
    /\ minTime = NoTime
    /\ diff = NoTime
    /\ ts = NoTime
    /\ reads = {}
    /\ earlier = {}
    /\ sel = NoRecord

Select ==
    /\ pc = "select"
    /\ \E rg, rw, rn, rs \in Random : sel' = Selected(i, rg, rw, rn, rs)
    /\ pc' = "selected"
    /\ UNCHANGED <<dtoIn, i, cur, dtoOut, usedBirthdates, clock, ticks, now, minTime, diff, ts,
                   reads, earlier>>

SelNext == Select

SelSpec == SelInit /\ [][SelNext]_vars

----------------------------------------------------------------------------
(* Vocabulary of the properties *)

\* a request main accepts as the specification means it: an object whose
\* count is a non-negative integer and whose age is present
ValidRequest(req) ==
    /\ TypeOf(req) = "object"
    /\ TypeOf(req.count) = "number"
    /\ req.count.v >= 0
    /\ TypeOf(req.age) = "object"

\* request null or absent, count not a number, or age absent
InvalidRequest(req) ==
    \/ TypeOf(req) \in {"null", "undefined"}
    \/ TypeOf(req.count) # "number"
    \/ TypeOf(req.age) \in {"null", "undefined"}

Running == pc \in {"loop", "draw"}

\* generateUniqueBirthdate has just returned ts, which is the birthdate of
\* the last record of dtoOut, and its locals are those of that call
JustIssued == pc \in {"loop", "done"} /\ Len(dtoOut) > 0

LastRecord == dtoOut[Len(dtoOut)]

Birthdates == {dtoOut[k].birthdate : k \in 1 .. Len(dtoOut)}

\* the number of millisecond instants of the window [minTime, minTime + d)
WindowSize(d) == IF TimeLess(Zero, d) THEN d ELSE Zero

CountExceedsWindow(c, d) == TimeLess(WindowSize(d), Ms(c))

\* every value the pass at line 160 can draw is in the Set already
AllDrawableUsed == Drawable(minTime, diff) \subseteq usedBirthdates

Range(list) == {list[k] : k \in 1 .. Len(list)}

----------------------------------------------------------------------------
(* C1 *)

\* C1: for a valid request (count a non-negative integer, age present) main
\* raises nothing and the sequence it returns has exactly count records;
\* count = 0 gives the empty sequence.
C1_LengthIsCount ==
    (pc \in {"done", "threw"} /\ ValidRequest(dtoIn)) =>
        /\ pc = "done"
        /\ Len(dtoOut) = dtoIn.count.v
        /\ (dtoIn.count.v = 0 => dtoOut = <<>>)

C1_Witness ==
    /\ pc = "done"
    /\ ValidRequest(dtoIn)
    /\ dtoIn.count.v = 2
    /\ Len(dtoOut) = 2

----------------------------------------------------------------------------
(* C2 *)

\* C2: for an invalid request (request null or absent, count not a number,
\* age absent) main returns the empty sequence and raises no error.
C2_InvalidReturnsEmpty ==
    (pc # "idle" /\ InvalidRequest(dtoIn)) => (pc = "done" /\ dtoOut = <<>>)

----------------------------------------------------------------------------
(* C3 *)

\* C3: the birthdates of any two distinct records of the sequence one run
\* builds are different.
C3_BirthdatesDistinct ==
    \A a, b \in 1 .. Len(dtoOut) :
        a # b => dtoOut[a].birthdate # dtoOut[b].birthdate

\* two records issued by calls that read the same clock instant, hence drew
\* from the same window
C3_Witness ==
    /\ pc = "done"
    /\ Len(dtoOut) = 2
    /\ Cardinality(reads) = 1

----------------------------------------------------------------------------
(* C4 *)

\* C4 as stated: for every request with age.min <= age.max the timestamp of
\* every record satisfies minTime <= ts < maxTime, the bounds taken at the
\* clock instant its call read.
C4_InWindowUpToEqualAges ==
    (JustIssued /\ dtoIn.age.min <= dtoIn.age.max) =>
        /\ TimeLeq(MinTimeOf(dtoIn.age, now), ts)
        /\ TimeLess(ts, MaxTimeOf(dtoIn.age, now))

\* C4 amended: the birthdate of a record is the ISO string of a timestamp ts
\* with minTime <= ts < maxTime when age.min < age.max, and with
\* ts = minTime = maxTime when age.min = age.max.
C4_InWindow ==
    JustIssued =>
        /\ LastRecord.birthdate = ToISOString(ts)
        /\ (dtoIn.age.min < dtoIn.age.max =>
                /\ TimeLeq(MinTimeOf(dtoIn.age, now), ts)
                /\ TimeLess(ts, MaxTimeOf(dtoIn.age, now)))
        /\ (dtoIn.age.min = dtoIn.age.max =>
                /\ ts = MinTimeOf(dtoIn.age, now)
                /\ ts = MaxTimeOf(dtoIn.age, now))

\* a record whose timestamp is the last instant of a window of a year
C4_Witness ==
    /\ JustIssued
    /\ dtoIn.age.min < dtoIn.age.max
    /\ ts = TimeSub(MaxTimeOf(dtoIn.age, now), Ms(1))
    /\ LastRecord.birthdate = ToISOString(ts)

----------------------------------------------------------------------------
(* C5 *)

\* what C5 says of every index: whatever the random draws, the record at
\* index i has gender male, female for i = 0, 1, workload 10, 20, 30, 40 for
\* i = 0 .. 3, and for i < 16 the name and the surname at position i of the
\* lists of its gender
C5_EntryAtIndex ==
    /\ (i = 0 => sel.gender = "male")
    /\ (i = 1 => sel.gender = "female")
    /\ (i < 4 => sel.workload = 10 * (i + 1))
    /\ (i < 16 /\ sel.gender = "male" =>
            sel.name = maleNames[i + 1] /\ sel.surname = maleSurnames[i + 1])
    /\ (i < 16 /\ sel.gender = "female" =>
            sel.name = femaleNames[i + 1] /\ sel.surname = femaleSurnames[i + 1])

\* C5 as stated: coverage first, so that record 0 is male/Jan/Novak/10 and
\* record 1 is female/Lucie/Novakova/20.
C5_CoverageFirstLucie ==
    pc = "selected" =>
        /\ C5_EntryAtIndex
        /\ (i = 0 => sel = [gender |-> "male", name |-> "Jan",
                            surname |-> "Nov<00E1>k", workload |-> 10])
        /\ (i = 1 => sel = [gender |-> "female", name |-> "Lucie",
                            surname |-> "Nov<00E1>kov<00E1>", workload |-> 20])

\* C5 amended: coverage first, so that record 0 is male/Jan/Novak/10 and
\* record 1, which takes entry 1 of the female lists, is
\* female/Marie/Svobodova/20.
C5_CoverageFirst ==
    pc = "selected" =>
        /\ C5_EntryAtIndex
        /\ (i = 0 => sel = [gender |-> "male", name |-> "Jan",
                            surname |-> "Nov<00E1>k", workload |-> 10])
        /\ (i = 1 => sel = [gender |-> "female", name |-> "Marie",
                            surname |-> "Svobodov<00E1>", workload |-> 20])

\* the selectors applied at index 1
C5_Witness ==
    /\ pc = "selected"
    /\ i = 1
    /\ sel.gender = "female"
    /\ sel.name = femaleNames[2]
    /\ sel.workload = 20

----------------------------------------------------------------------------
(* C6 *)

\* C6: at every index, the randomized tail included, gender is male or
\* female, workload is one of 10, 20, 30, 40, and name and surname are
\* entries of the name list and the surname list of the record's gender.
C6_ValuesOfOwnGender ==
    pc = "selected" =>
        /\ sel.gender \in {"male", "female"}
        /\ sel.workload \in {10, 20, 30, 40}
        /\ (sel.gender = "male" =>
                sel.name \in Range(maleNames) /\ sel.surname \in Range(maleSurnames))
        /\ (sel.gender = "female" =>
                sel.name \in Range(femaleNames)
                    /\ sel.surname \in Range(femaleSurnames))

\* an index past every list, all four values drawn
C6_Witness ==
    /\ pc = "selected"
    /\ i = 16
    /\ sel = [gender |-> "male", name |-> "Jan", surname |-> "Kr<00E1>l",
              workload |-> 40]

----------------------------------------------------------------------------
(* C7 *)

\* the Set holds exactly the timestamps of the records built so far
C7_SetIsIssued ==
    /\ Cardinality(usedBirthdates) = Len(dtoOut)
    /\ {ToISOString(t) : t \in usedBirthdates} = Birthdates
    /\ (pc \in {"loop", "draw"} => Len(dtoOut) = i)

\* a call of main starts with an empty Set; a return of
\* generateUniqueBirthdate adds the timestamp it returns, which was not in
\* the Set, and removes nothing; no other step changes the Set
C7_SetSteps ==
    /\ (pc \in {"idle", "done", "threw"} /\ pc' = "loop" => usedBirthdates' = {})
    /\ (pc = "draw" /\ pc' = "loop" =>
            /\ ts' \notin usedBirthdates
            /\ usedBirthdates' = usedBirthdates \cup {ts'}
            /\ dtoOut' = Append(dtoOut, [dtoOut'[Len(dtoOut')] EXCEPT
                                             !.birthdate = ToISOString(ts')]))
    /\ (usedBirthdates' # usedBirthdates =>
            \/ pc = "draw" /\ pc' = "loop"
            \/ pc = "done" /\ usedBirthdates' = {})

\* C7: the set of used timestamps is scoped to the run: empty at the start of
\* every run, after k iterations exactly the k timestamps of the k records,
\* grown by exactly the returned timestamp at each call, and gone when the
\* next run starts.
C7_RunScopedSet == []C7_SetIsIssued /\ [][C7_SetSteps]_vars

\* the second run has issued the timestamp the first run issued last
C7_Witness ==
    /\ pc = "done"
    /\ earlier # {}
    /\ earlier \subseteq usedBirthdates
    /\ Len(dtoOut) = 2

----------------------------------------------------------------------------
(* C8 *)

\* C8 as stated, its second half: when count exceeds the number of distinct
\* millisecond instants of the window the run never returns.
C8_NoReturnBeyondWindow ==
    (pc = "done" /\ ValidRequest(dtoIn) /\ dtoIn.count.v > 0) =>
        ~CountExceedsWindow(dtoIn.count.v, diff)

\* under fair draws a run returns when count is at most the number of
\* instants of the window
C8_ReturnsWithinWindow ==
    (Running /\ ~CountExceedsWindow(dtoIn.count.v, DiffOf(dtoIn.age, clock)))
        ~> (pc = "done")

\* a retry loop all of whose drawable values are used never ends
C8_StuckStep == (pc = "draw" /\ AllDrawableUsed) => (pc' = "draw" /\ AllDrawableUsed')

\* under fair draws a retry loop with an unused drawable value ends
C8_FreeEnds == (pc = "draw" /\ ~AllDrawableUsed) ~> (pc = "loop")

\* C8 amended: under fair draws the run returns whenever count is at most the
\* number of instants of the window; a retry loop fails to end exactly when
\* every value it can draw is used already, so a count above the number of
\* instants does not by itself keep the run from returning.
C8_Termination ==
    C8_ReturnsWithinWindow /\ [][C8_StuckStep]_vars /\ C8_FreeEnds

\* a retry loop that cannot end: one record issued, the next call's only
\* drawable value drawn again
C8_Witness ==
    /\ pc = "draw"
    /\ AllDrawableUsed
    /\ ts \in usedBirthdates
    /\ CountExceedsWindow(dtoIn.count.v, diff)

----------------------------------------------------------------------------
(* C9 *)

\* with age.min = age.max a call can draw only minTime = maxTime of the
\* instant it read, and the first record's birthdate is that maxTime
C9_SingleInstant ==
    (pc # "idle" /\ ValidRequest(dtoIn) /\ dtoIn.age.min = dtoIn.age.max) =>
        /\ (pc = "draw" =>
                /\ Drawable(minTime, diff) = {MaxTimeOf(dtoIn.age, now)}
                /\ minTime = MaxTimeOf(dtoIn.age, now))
        /\ (JustIssued /\ Len(dtoOut) = 1 =>
                dtoOut[1].birthdate = ToISOString(MaxTimeOf(dtoIn.age, now)))

\* the clock is not read inside the retry loop, and a call that read the
\* clock instant an earlier call of the run read stays in its retry loop
C9_SpinStep ==
    /\ (pc = "draw" /\ pc' = "draw" => now' = now /\ minTime' = minTime)
    /\ (pc = "draw" /\ dtoIn.age.min = dtoIn.age.max /\ now \in reads =>
            pc' = "draw" /\ now' \in reads' /\ dtoOut' = dtoOut)

\* C9: zero-length window.
C9_ZeroWindow == []C9_SingleInstant /\ [][C9_SpinStep]_vars

\* the second call read the instant the first one read and has drawn the
\* used timestamp again
C9_Witness ==
    /\ pc = "draw"
    /\ dtoIn.age.min = dtoIn.age.max
    /\ now \in reads
    /\ ts = minTime
    /\ Len(dtoOut) = 1

----------------------------------------------------------------------------
(* C10 *)

\* C10: with age.min > age.max the request is not rejected: main returns
\* count records with pairwise distinct birthdates, each the ISO string of a
\* timestamp ts with maxTime <= ts <= minTime.
C10_InvertedWindow ==
    (pc # "idle" /\ ValidRequest(dtoIn) /\ dtoIn.age.min > dtoIn.age.max) =>
        /\ pc \in {"loop", "draw", "done"}
        /\ (pc = "done" =>
                Len(dtoOut) = dtoIn.count.v
                    /\ Cardinality(Birthdates) = dtoIn.count.v)
        /\ (JustIssued =>
                /\ LastRecord.birthdate = ToISOString(ts)
                /\ TimeLeq(MaxTimeOf(dtoIn.age, now), ts)
                /\ TimeLeq(ts, MinTimeOf(dtoIn.age, now)))

\* both ends: a run whose two records carry minTime and maxTime
C10_Witness ==
    /\ pc = "done"
    /\ ValidRequest(dtoIn)
    /\ dtoIn.age.min > dtoIn.age.max
    /\ Len(dtoOut) = 2
    /\ dtoOut[1].birthdate = ToISOString(MinTimeOf(dtoIn.age, now))
    /\ dtoOut[2].birthdate = ToISOString(MaxTimeOf(dtoIn.age, now))

====
